---- MODULE Spec2Model ----
(***************************************************************************)
(* LokiDatasource: target preparation, the one-shot query() batch, the     *)
(* requestStream() batch and the interval-driven live poller               *)
(* (webSocketStream), as a state machine.                                  *)
(*                                                                         *)
(* Times are moments in milliseconds (moment.valueOf()); getTime turns     *)
(* them into nanoseconds.  The clock starts one timer period before the    *)
(* epoch so that every nanosecond value of a run stays a small integer.    *)
(***************************************************************************)
EXTENDS Integers, Sequences, FiniteSets, TLC

\* ------------------------------------------------------------------ bounds
MaxTargets == 2        \* longest options.targets list
MaxTicks == 2          \* timer ticks of interval(1000) that a run lets fire
ConfiguredMaxLines == 2  \* a jsonData.maxLines setting that differs from the default

\* ------------------------------------------------------- program constants
DEFAULT_MAX_LINES == 1000
TimerPeriodMs == 1000
LiveWindowMs == 1000
NsPerMs == 1000000

DEFAULT_QUERY_PARAMS ==
  [direction |-> "BACKWARD", limit |-> DEFAULT_MAX_LINES, regexp |-> "", query |-> ""]

\* -------------------------------------------------------------- the inputs
E_A == "{job=\"$job\"}"
E_B == "{job=\"b\"} err"

\* the targets a request is made of: shown/hidden, logs/time series, empty expression
TargetPool ==
  { [expr |-> E_A, hide |-> FALSE, format |-> "logs"],
    [expr |-> E_B, hide |-> FALSE, format |-> "time_series"],
    [expr |-> E_B, hide |-> TRUE,  format |-> "time_series"],
    [expr |-> "",  hide |-> FALSE, format |-> "logs"] }

SeqsUpTo(S, n) == UNION { [1..k -> S] : k \in 0..n }

\* a date is a moment (its valueOf in ms) or a date-math string
Moment(ms) == [ms |-> ms]
DateStr(s) == [str |-> s]
isString(date) == "str" \in DOMAIN date

Ranges ==
  { [from |-> Moment(-1800), to |-> Moment(300)],
    [from |-> DateStr("now-1s"), to |-> DateStr("now/s")],
    [from |-> Moment(500), to |-> Moment(500)] }

\* instanceSettings.jsonData.maxLines: absent (0) or a number
Settings == {0, ConfiguredMaxLines}

\* options.intervalMs
Intervals == {200}

\* ------------------------------------------------------------ collaborators
\* templateSrv.replace: substitutes the template variable $job
templateSrv_replace(expr) ==
  IF expr = E_A THEN "{job=\"a\"}" ELSE expr

\* parseQuery: the selector and the rest of the expression as the regexp
parseQuery(input) ==
  CASE input = "{job=\"a\"}"     -> [query |-> "{job=\"a\"}", regexp |-> ""]
    [] input = "{job=\"b\"} err" -> [query |-> "{job=\"b\"}", regexp |-> "err"]
    [] OTHER                     -> [query |-> "", regexp |-> input]

\* dateMath.parse(text, roundUp) at clock time `now`: a moment in ms
dateMath_parse(text, roundUp, now) ==
  CASE text = "now"    -> now
    [] text = "now-1s" -> now - 1000
    [] text = "now/s"  -> IF roundUp THEN (now \div 1000) * 1000 + 999
                                     ELSE (now \div 1000) * 1000
    [] OTHER           -> now

\* the streams the backend holds for a selector; entries carry ms timestamps
Entry(ts, line) == [ts |-> ts, line |-> line]
StoredStreams(query) ==
  CASE query = "{job=\"a\"}" ->
         << [labels |-> "{job=\"a\"}",
             entries |-> << Entry(-1900, "a1"), Entry(-1700, "a2"), Entry(-1800, "a3"),
                            Entry(500, "a4") >>] >>
    [] query = "{job=\"b\"}" ->
         << [labels |-> "{job=\"b\",lvl=\"x\"}",
             entries |-> << Entry(-1750, "b1 err"), Entry(250, "b2 err") >>],
            [labels |-> "{job=\"b\",lvl=\"y\"}",
             entries |-> << Entry(-1700, "b3 err"), Entry(50, "b4 err") >>] >>
    [] OTHER -> << >>

\* GET /api/prom/query: the streams of the selector, each with its entries inside
\* [start, end]; a stream without such an entry is left out, and a response
\* without any stream has no data.streams
BackendStreams(target) ==
  LET inWindow(e) == target.start <= e.ts * NsPerMs /\ e.ts * NsPerMs <= target.end
      cut == [n \in 1..Len(StoredStreams(target.query)) |->
                [labels |-> StoredStreams(target.query)[n].labels,
                 entries |-> SelectSeq(StoredStreams(target.query)[n].entries, inWindow)]]
  IN  SelectSeq(cut, LAMBDA st : st.entries # << >>)

\* ------------------------------------------------------------- pure helpers
\* object spread {...a, ...b}: the keys of both, b's value winning
Spread(a, b) ==
  [k \in (DOMAIN a) \cup (DOMAIN b) |-> IF k \in DOMAIN b THEN b[k] ELSE a[k]]

\* constructor: parseInt(settingsData.maxLines, 10) || DEFAULT_MAX_LINES
constructor_maxLines(setting) ==
  IF setting = 0 THEN DEFAULT_MAX_LINES ELSE setting

\* getTime: Math.ceil(date.valueOf() * 1e6); the product of an integer number of
\* milliseconds is an integer, which Math.ceil leaves alone
getTime_RoundsEveryDate(date, roundUp, now) ==
  LET moment == IF isString(date) THEN dateMath_parse(date.str, roundUp, now)
                ELSE IF roundUp THEN (date.ms \div 1000) * 1000 + 999
                ELSE (date.ms \div 1000) * 1000
  IN  moment * NsPerMs

getTime(date, roundUp, now) ==
  LET moment == IF isString(date) THEN dateMath_parse(date.str, roundUp, now)
                                  ELSE date.ms
  IN  moment * NsPerMs

\* targets.filter(target => target.expr && !target.hide)
IsQueried_IgnoreHide(target) == target.expr # ""

IsQueried(target) == target.expr # "" /\ ~target.hide
Survivors(targets) == SelectSeq(targets, IsQueried)
\* targets.filter(target => !target.expr || target.hide)
Suppressed(targets) == SelectSeq(targets, LAMBDA t : ~IsQueried(t))

\* liveStream as prepareQueryTarget and stream() compute it
LiveStreamOf_FirstQueried(options) ==
  LET queried == SelectSeq(options.targets, LAMBDA t : t.expr # "" /\ ~t.hide)
  IN  IF queried = << >> THEN options.targets[1].format # "time_series"
      ELSE queried[1].format # "time_series"

LiveStreamOf(options) == options.targets[1].format # "time_series"

\* the result type check of query() and requestStream()
IsTimeSeries(options) == options.targets[1].format = "time_series"

prepareQueryTarget_KeepsLimit(target, options, maxLines, now) ==
  LET liveStream == LiveStreamOf(options)
      parsed == parseQuery(templateSrv_replace(target.expr))
      from == IF liveStream THEN Moment(now - LiveWindowMs) ELSE options.range.from
      to == IF liveStream THEN Moment(now) ELSE options.range.to
  IN  Spread(Spread(DEFAULT_QUERY_PARAMS, parsed),
             [start |-> getTime(from, FALSE, now), end |-> getTime(to, TRUE, now)])

prepareQueryTarget(target, options, maxLines, now) ==
  LET liveStream == LiveStreamOf(options)
      interpolated == templateSrv_replace(target.expr)
      liveStreamStart == Moment(now - LiveWindowMs)
      liveStreamEnd == Moment(now)
      start == IF liveStream THEN getTime(liveStreamStart, FALSE, now)
                             ELSE getTime(options.range.from, FALSE, now)
      end == IF liveStream THEN getTime(liveStreamEnd, TRUE, now)
                           ELSE getTime(options.range.to, TRUE, now)
  IN  Spread(Spread(DEFAULT_QUERY_PARAMS, parseQuery(interpolated)),
             [start |-> start, end |-> end, limit |-> maxLines])

\* ------------------------------------------------ merging (result_transformer)
Min(a, b) == IF a < b THEN a ELSE b

RowsOf(stream) ==
  [j \in 1..Len(stream.entries) |->
     [ts |-> stream.entries[j].ts, line |-> stream.entries[j].line,
      labels |-> stream.labels, search |-> stream.search]]

RECURSIVE FlattenRows(_)
FlattenRows(streams) ==
  IF streams = << >> THEN << >>
  ELSE RowsOf(Head(streams)) \o FlattenRows(Tail(streams))

\* stable insertion into a newest-first sequence
RECURSIVE InsertRow(_, _)
InsertRow(row, sorted) ==
  IF sorted = << >> THEN << row >>
  ELSE IF Head(sorted).ts >= row.ts THEN << Head(sorted) >> \o InsertRow(row, Tail(sorted))
  ELSE << row >> \o sorted

RECURSIVE SortRows(_)
SortRows(rows) ==
  IF rows = << >> THEN << >>
  ELSE InsertRow(rows[Len(rows)], SortRows(SubSeq(rows, 1, Len(rows) - 1)))

mergeStreamsToLogs(streams, limit) ==
  LET sorted == SortRows(FlattenRows(streams))
  IN  [rows |-> SubSeq(sorted, 1, Min(limit, Len(sorted)))]

\* one series line per label set, one point per interval bucket holding rows
RECURSIVE Dedup(_)
Dedup(s) ==
  IF s = << >> THEN << >>
  ELSE LET rest == Dedup(SubSeq(s, 1, Len(s) - 1))
           x == s[Len(s)]
       IN  IF \E j \in 1..Len(rest) : rest[j] = x THEN rest ELSE Append(rest, x)

RECURSIVE SortAsc(_)
SortAsc(S) ==
  IF S = {} THEN << >>
  ELSE LET m == CHOOSE x \in S : \A y \in S : x <= y
       IN  << m >> \o SortAsc(S \ {m})

makeSeriesForLogs(rows, intervalMs) ==
  LET bucket(r) == (r.ts \div intervalMs) * intervalMs
      labelSets == Dedup([j \in 1..Len(rows) |-> rows[j].labels])
      line(l) ==
        LET mine == { j \in 1..Len(rows) : rows[j].labels = l }
            times == SortAsc({ bucket(rows[j]) : j \in mine })
        IN  [alias |-> l,
             datapoints |->
               [n \in 1..Len(times) |->
                  << Cardinality({ j \in mine : bucket(rows[j]) = times[n] }), times[n] >>]]
  IN  [n \in 1..Len(labelSets) |-> line(labelSets[n])]

mergeStreams_DefaultLimit(streams, intervalMs, maxLines) ==
  LET logs == mergeStreamsToLogs(streams, DEFAULT_MAX_LINES)
  IN  [rows |-> logs.rows, series |-> makeSeriesForLogs(logs.rows, intervalMs)]

mergeStreams(streams, intervalMs, maxLines) ==
  LET logs == mergeStreamsToLogs(streams, maxLines)
  IN  [rows |-> logs.rows, series |-> makeSeriesForLogs(logs.rows, intervalMs)]

\* ------------------------------------------------------------------- state
VARIABLES
  maxLines,    \* this.maxLines
  options,     \* the DataQueryOptions of the call: targets, range, intervalMs
  clock,       \* moment(): the wall clock in ms
  q,           \* the promise query() returned: state, kind and data of its value
  sub,         \* the subscription stream() returned
  ticks,       \* values interval(1000) has emitted
  requests,    \* the backend calls issued: batch, position, parameters, response
  delivered,   \* the elements handed to the subscriber (observer.next), in order
  failed,      \* the batches of the subscription that had a backend call fail
  dropped,     \* whether a response has found its subscriber already closed
  returned     \* what a direct call of mergeStreams() or getTime() returned

vars ==
  << maxLines, options, clock, q, sub, ticks, requests, delivered, failed, dropped,
     returned >>

\* batch 0 is the query() call or the one-shot requestStream(); batch n >= 1 is
\* the requestStream() of timer tick n
Req(batch, i, target) ==
  [batch |-> batch, i |-> i, target |-> target, resp |-> "pending", order |-> 0]

BatchOf(reqs, batch) == { r \in reqs : r.batch = batch }
Responded(reqs) == { r \in reqs : r.resp # "pending" }

Outcomes == {"ok", "error"}

\* the response body of a backend call: result.data.streams
ResultStreams(r) ==
  IF r.resp = "ok"
  THEN LET found == BackendStreams(r.target)
       IN  [n \in 1..Len(found) |->
              [labels |-> found[n].labels, entries |-> found[n].entries,
               origin |-> r.i]]
  ELSE << >>

\* add the search term to each stream
TagStreams(streams, regexp) ==
  [n \in 1..Len(streams) |->
     [labels |-> streams[n].labels, entries |-> streams[n].entries,
      origin |-> streams[n].origin, search |-> regexp]]

\* the request targets of a batch, in the order of options.targets
QueryTargets(opts, lines, now) ==
  LET surv == Survivors(opts.targets)
  IN  [i \in 1..Len(surv) |-> prepareQueryTarget(surv[i], opts, lines, now)]

IssueRequests(opts, lines, now, batch) ==
  LET queryTargets == QueryTargets(opts, lines, now)
  IN  { Req(batch, i, queryTargets[i]) : i \in 1..Len(queryTargets) }

\* the call r has settled with outcome, as the n-th of its batch
Settle(reqs, r, outcome) ==
  (reqs \ {r}) \cup
    { [r EXCEPT !.resp = outcome,
                !.order = Cardinality(Responded(BatchOf(reqs, r.batch))) + 1] }

\* the subscriber of call r has received its answer
Answer(reqs, r, outcome) == (reqs \ {r}) \cup { [r EXCEPT !.resp = outcome] }

\* ----------------------------------------------------------------- query()
\* Promise.all: rejects with the first rejection, resolves when all have resolved
Promise_allSettled(reqs) ==
  IF \E r \in reqs : r.resp = "pending" THEN "pending" ELSE "resolved"

Promise_all(reqs) ==
  IF \E r \in reqs : r.resp = "error" THEN "rejected"
  ELSE IF \E r \in reqs : r.resp = "pending" THEN "pending"
  ELSE "resolved"

\* the results array Promise.all hands to then(): in the order of the promises
ResultsByArrival(reqs) ==
  [n \in 1..Cardinality(reqs) |-> CHOOSE r \in reqs : r.order = n]

PromiseAllResults(reqs) ==
  [i \in 1..Cardinality(reqs) |-> CHOOSE r \in reqs : r.i = i]

RECURSIVE Concat(_)
Concat(lists) ==
  IF lists = << >> THEN << >> ELSE Head(lists) \o Concat(Tail(lists))

\* the then() callback of query()
QueryThen(reqs, opts, lines) ==
  LET results == PromiseAllResults(reqs)
      byPosition == [i \in 1..Len(results) |-> CHOOSE r \in reqs : r.i = i]
      allStreams ==
        Concat([i \in 1..Len(results) |->
                  TagStreams(ResultStreams(results[i]), byPosition[i].target.regexp)])
  IN  IF IsTimeSeries(opts)
      THEN [state |-> "resolved", kind |-> "series",
            data |-> mergeStreams(allStreams, opts.intervalMs, lines).series]
      ELSE [state |-> "resolved", kind |-> "streams", data |-> allStreams]

Query ==
  /\ q.state = "idle" /\ sub = "Idle"
  /\ LET issued == IssueRequests(options, maxLines, clock, 0)
     IN  IF issued = {}
         THEN /\ q' = [state |-> "resolved", kind |-> "streams", data |-> << >>]
              /\ UNCHANGED requests
         ELSE /\ q' = [state |-> "pending", kind |-> "none", data |-> << >>]
              /\ requests' = issued
  /\ UNCHANGED << maxLines, options, clock, sub, ticks, delivered, failed, dropped, returned >>

\* a backend call of query() settles; a promise that has settled stays as it is
QueryResponse(r, outcome) ==
  /\ q.state \in {"pending", "rejected"}
  /\ r.resp = "pending"
  /\ requests' = Settle(requests, r, outcome)
  /\ q' = IF q.state # "pending" THEN q
          ELSE CASE Promise_all(requests') = "rejected" ->
                      [state |-> "rejected", kind |-> "none", data |-> << >>]
                 [] Promise_all(requests') = "resolved" ->
                      QueryThen(requests', options, maxLines)
                 [] OTHER -> q
  /\ UNCHANGED << maxLines, options, clock, sub, ticks, delivered, failed, dropped, returned >>

\* ---------------------------------------------------------------- stream()
\* a subscription hands values on until it is unsubscribed, has failed or completed
IsOpen_IgnoreUnsubscribe(state) == state \in {"Polling", "Streaming", "Cancelled"}

IsOpen(state) == state \in {"Polling", "Streaming"}

\* merge(emptyStream$, result): the array of EMPTY observables is itself an
\* observable input, so each EMPTY object is handed on as a value on subscribe
EmptyElements(opts, batch) ==
  [n \in 1..Len(Suppressed(opts.targets)) |->
     [batch |-> batch, kind |-> "EMPTY", sources |-> {}, data |-> << >>]]

\* forkJoin emits the list of per-target stream lists once every call has
\* answered; combineLatest(streams => streams) hands that list on; mergeMap(value
\* => value) flattens it, so map() runs once per target on that target's list
JoinElements(reqs, opts, lines, batch) ==
  LET results == [i \in 1..Cardinality(reqs) |-> CHOOSE r \in reqs : r.i = i]
      lists == [i \in 1..Len(results) |->
                  TagStreams(ResultStreams(results[i]), results[i].target.regexp)]
  IN  [i \in 1..Len(lists) |->
         IF IsTimeSeries(opts)
         THEN [batch |-> batch, kind |-> "series", sources |-> {i},
               data |-> mergeStreams(lists[i], opts.intervalMs, lines).series]
         ELSE [batch |-> batch, kind |-> "streams", sources |-> {i},
               data |-> lists[i]]]

\* stream(options) is subscribed (it reads options.targets[0], so the list is not
\* empty).  A live stream starts the timer; otherwise requestStream(options) is
\* subscribed: the suppressed targets' EMPTY objects come out at once and one
\* backend call per queried target goes out
Subscribe ==
  /\ q.state = "idle" /\ sub = "Idle"
  /\ Len(options.targets) > 0
  /\ IF LiveStreamOf(options)
     THEN /\ sub' = "Polling"
          /\ UNCHANGED << requests, delivered >>
     ELSE LET issued == IssueRequests(options, maxLines, clock, 0)
          IN  /\ requests' = issued
              /\ delivered' = delivered \o EmptyElements(options, 0)
              /\ sub' = IF issued = {} THEN "Completed" ELSE "Streaming"
  /\ UNCHANGED << maxLines, options, clock, q, ticks, failed, dropped, returned >>

\* a timer that unsubscribe() does not stop
Tick_TimerNotStopped ==
  /\ sub \in {"Polling", "Cancelled"}
  /\ ticks < MaxTicks
  /\ ticks' = ticks + 1
  /\ clock' = clock + TimerPeriodMs
  /\ requests' = requests \cup IssueRequests(options, maxLines, clock', ticks')
  /\ delivered' = delivered \o EmptyElements(options, ticks')
  /\ UNCHANGED << maxLines, options, q, sub, failed, dropped, returned >>

\* a poller that reads the clock once, before the tick, and not at the tick
Tick_CachedNow ==
  /\ sub = "Polling"
  /\ ticks < MaxTicks
  /\ ticks' = ticks + 1
  /\ clock' = clock + TimerPeriodMs
  /\ requests' = requests \cup IssueRequests(options, maxLines, clock, ticks')
  /\ delivered' = delivered \o EmptyElements(options, ticks')
  /\ UNCHANGED << maxLines, options, q, sub, failed, dropped, returned >>

\* a timer whose tick waits until no backend call is in flight
Tick_Serialized ==
  /\ sub = "Polling"
  /\ ticks < MaxTicks
  /\ \A r \in requests : r.resp # "pending"
  /\ ticks' = ticks + 1
  /\ clock' = clock + TimerPeriodMs
  /\ requests' = requests \cup IssueRequests(options, maxLines, clock', ticks')
  /\ delivered' = delivered \o EmptyElements(options, ticks')
  /\ UNCHANGED << maxLines, options, q, sub, failed, dropped, returned >>

\* interval(1000) fires: map() builds this tick's requestStream and mergeMap
\* subscribes to it, whatever earlier ticks still have in flight
Tick ==
  /\ sub = "Polling"
  /\ ticks < MaxTicks
  /\ ticks' = ticks + 1
  /\ clock' = clock + TimerPeriodMs
  /\ requests' = requests \cup IssueRequests(options, maxLines, clock', ticks')
  /\ delivered' = delivered \o EmptyElements(options, ticks')
  /\ UNCHANGED << maxLines, options, q, sub, failed, dropped, returned >>

\* a backend call of a requestStream batch answers or fails.  An answer hands
\* its stream list to forkJoin; a failure is an error notification, which no
\* operator of the chain handles: the chain is unsubscribed.  A subscriber that
\* is already closed ignores whatever arrives.
StreamResponse(r, outcome) ==
  /\ q.state = "idle" /\ sub # "Idle"
  /\ r.resp = "pending"
  /\ IF IsOpen(sub)
     THEN /\ IF outcome = "error"
             THEN /\ sub' = "Errored"
                  /\ failed' = failed \cup {r.batch}
                  /\ UNCHANGED << requests, delivered >>
             ELSE /\ requests' = Answer(requests, r, outcome)
                  /\ UNCHANGED failed
                  /\ IF \A x \in BatchOf(requests', r.batch) : x.resp # "pending"
                     THEN /\ delivered' = delivered \o
                                JoinElements(BatchOf(requests', r.batch), options,
                                             maxLines, r.batch)
                          /\ sub' = IF sub = "Streaming" THEN "Completed" ELSE sub
                     ELSE UNCHANGED << sub, delivered >>
          /\ UNCHANGED dropped
     ELSE /\ dropped' = TRUE
          /\ UNCHANGED << sub, delivered, requests, failed >>
  /\ UNCHANGED << maxLines, options, clock, q, ticks, returned >>

\* the subscriber unsubscribes: the teardown unsubscribes the interval chain
Unsubscribe ==
  /\ sub \in {"Polling", "Streaming", "Errored"}
  /\ sub' = "Cancelled"
  /\ UNCHANGED << maxLines, options, clock, q, ticks, requests, delivered, failed, dropped, returned >>

\* ------------------------------------------------- direct calls of methods
\* the streams a caller hands to mergeStreams(): tagged streams of the backend
\* and a stream without entries
StreamPool ==
  { [labels |-> st.labels, entries |-> st.entries, search |-> search] :
      st \in { StoredStreams("{job=\"a\"}")[1] }, search \in {""} }
  \cup
  { [labels |-> st.labels, entries |-> st.entries, search |-> search] :
      st \in { StoredStreams("{job=\"b\"}")[n] : n \in 1..2 }, search \in {"err"} }
  \cup
  { [labels |-> "{job=\"c\"}", entries |-> << >>, search |-> ""] }

\* the dates a caller hands to getTime(): moments and date-math strings
Dates ==
  { Moment(-1800), Moment(500), DateStr("now"), DateStr("now-1s"), DateStr("now/s") }

\* mergeStreams(streams, options.intervalMs) is called
MergeStreams ==
  /\ q.state = "idle" /\ sub = "Idle" /\ returned.fn = "none"
  /\ \E streams \in SeqsUpTo(StreamPool, MaxTargets) :
       returned' = [fn |-> "mergeStreams", streams |-> streams,
                    logs |-> mergeStreams(streams, options.intervalMs, maxLines)]
  /\ UNCHANGED << maxLines, options, clock, q, sub, ticks, requests, delivered,
                  failed, dropped >>

\* getTime(date, false) and getTime(date, true) are called on the same date
GetTime ==
  /\ q.state = "idle" /\ sub = "Idle" /\ returned.fn = "none"
  /\ \E date \in Dates :
       returned' = [fn |-> "getTime", date |-> date,
                    down |-> getTime(date, FALSE, clock),
                    up |-> getTime(date, TRUE, clock)]
  /\ UNCHANGED << maxLines, options, clock, q, sub, ticks, requests, delivered,
                  failed, dropped >>

\* ----------------------------------------------------------- specification
Init ==
  /\ maxLines \in { constructor_maxLines(setting) : setting \in Settings }
  /\ options \in [targets : SeqsUpTo(TargetPool, MaxTargets),
                  range : Ranges, intervalMs : Intervals]
  /\ clock = 0 - TimerPeriodMs
  /\ q = [state |-> "idle", kind |-> "none", data |-> << >>]
  /\ sub = "Idle"
  /\ ticks = 0
  /\ requests = {}
  /\ delivered = << >>
  /\ failed = {}
  /\ dropped = FALSE
  /\ returned = [fn |-> "none"]

\* a run follows one call: query(), stream(), mergeStreams() or getTime()
Next ==
  \/ returned.fn = "none" /\ Query
  \/ \E r \in requests, outcome \in Outcomes : QueryResponse(r, outcome)
  \/ returned.fn = "none" /\ Subscribe
  \/ Tick
  \/ \E r \in requests, outcome \in Outcomes : StreamResponse(r, outcome)
  \/ Unsubscribe
  \/ MergeStreams
  \/ GetTime

Spec == Init /\ [][Next]_vars

\* ------------------------------------------------------------------ claims
\* the positions of options.targets with an expression and not hidden
QueriedPositions ==
  { i \in DOMAIN options.targets :
      options.targets[i].expr # "" /\ ~options.targets[i].hide }

\* the batches that have been started
StartedBatches ==
  IF q.state # "idle" THEN {0}
  ELSE IF sub = "Idle" THEN {}
  ELSE IF options.targets[1].format = "time_series" THEN {0}
  ELSE 1..ticks

\* C1: once the subscriber has unsubscribed, nothing is delivered to it any
\* more, whatever responses of in-flight backend calls arrive afterwards.
C1_NoDeliveryAfterCancel == [][sub = "Cancelled" => delivered' = delivered]_vars

\* a live subscription was cancelled with calls in flight, and one answered later
C1_Witness ==
  /\ sub = "Cancelled" /\ ticks >= 1 /\ failed = {}
  /\ dropped
  /\ \E r \in requests : r.resp = "pending"

\* C2: a failing backend call of one tick does not terminate the live poller:
\* unless it was cancelled, it is still polling after a tick has failed.
C2_TickFailureIsolated ==
  (ticks >= 1 /\ failed # {} /\ sub # "Cancelled") => sub = "Polling"

\* C3: the promise query() returns never rejects, whatever the backend calls do.
C3_QueryNeverRejects == q.state # "rejected"

\* C4: all-or-nothing: as soon as a backend call of a query() batch has failed
\* the promise is rejected, and it never resolves to data from the other calls.
C4_AllOrNothing ==
  (q.state # "idle" /\ \E r \in requests : r.resp = "error") => q.state = "rejected"

\* a call of the batch answered, another failed, and the caller got a failure
C4_Witness ==
  /\ q.state = "rejected"
  /\ \E r1, r2 \in requests :
       r1.resp = "ok" /\ r2.resp = "error" /\ r1.order < r2.order

\* C5: every started batch (query() or a requestStream tick) has issued exactly
\* one backend call per target with an expression that is not hidden, and
\* query() with no such target resolves to an empty list without any call.
C5_RequestsOnlyForQueried ==
  /\ \A r \in requests : r.batch \in StartedBatches
  /\ \A b \in StartedBatches :
       Cardinality(BatchOf(requests, b)) = Cardinality(QueriedPositions)
  /\ (q.state # "idle" /\ QueriedPositions = {}) =>
       (q.state = "resolved" /\ q.data = << >> /\ requests = {})

\* a live tick has run over a target list with a suppressed and a queried target
C5_Witness ==
  /\ ticks >= 1
  /\ QueriedPositions # {}
  /\ QueriedPositions # DOMAIN options.targets
  /\ \E n \in DOMAIN delivered : delivered[n].kind = "streams"

\* C6: every backend call of query() carries the requested range:
\* start = getTime(range.from, false) and end = getTime(range.to, true).
C6_QueryUsesRequestedRange ==
  q.state # "idle" =>
    \A r \in requests :
      /\ r.target.start = getTime(options.range.from, FALSE, clock)
      /\ r.target.end = getTime(options.range.to, TRUE, clock)

\* the regexp of the queried target at position i of the batch
RegexpOfQueried(i) ==
  LET queried == [n \in 1..Cardinality(QueriedPositions) |->
                    CHOOSE p \in QueriedPositions :
                      Cardinality({ x \in QueriedPositions : x < p }) = n - 1]
  IN  parseQuery(templateSrv_replace(options.targets[queried[i]].expr)).regexp

StreamsTagged(streams) ==
  \A n \in DOMAIN streams : streams[n].search = RegexpOfQueried(streams[n].origin)

\* C7: every stream returned by query() or emitted by requestStream() carries in
\* its search field the regexp of the target whose backend call returned it.
C7_TaggedWithOwnRegexp ==
  /\ (q.state = "resolved" /\ q.kind = "streams") => StreamsTagged(q.data)
  /\ \A n \in DOMAIN delivered :
       delivered[n].kind = "streams" => StreamsTagged(delivered[n].data)

\* query() returned the streams of two targets with different regexps whose
\* calls answered in the opposite order
C7_Witness ==
  /\ q.state = "resolved" /\ q.kind = "streams"
  /\ \E a, b \in DOMAIN q.data : q.data[a].search # q.data[b].search
  /\ \E r1, r2 \in requests : r1.i < r2.i /\ r1.order > r2.order

\* the mode the code ran the batch in
RanAsTimeSeries ==
  \/ q.kind = "series"
  \/ sub \in {"Streaming", "Completed"}
  \/ \E n \in DOMAIN delivered : delivered[n].kind = "series"
RanAsLogs ==
  \/ q.kind = "streams" /\ requests # {}
  \/ ticks >= 1
  \/ sub = "Polling"
  \/ \E n \in DOMAIN delivered : delivered[n].kind = "streams"

\* C8 (as amended): the mode of a batch is the format of the target at position
\* 0 of options.targets, whether or not that target is hidden or empty.
C8_ModeFromFirstTarget ==
  /\ RanAsTimeSeries => options.targets[1].format = "time_series"
  /\ RanAsLogs => options.targets[1].format # "time_series"

\* a batch ran whose target at position 0 is suppressed and has another format
\* than the first queried target
C8_Witness ==
  /\ QueriedPositions # {}
  /\ 1 \notin QueriedPositions
  /\ \E p \in QueriedPositions :
       /\ \A x \in QueriedPositions : p <= x
       /\ options.targets[p].format # options.targets[1].format
  /\ (RanAsTimeSeries \/ RanAsLogs)

\* C8 (as stated): the mode of a batch is the format of the first target that
\* is not suppressed.
C8_ModeFromFirstQueried ==
  \A p \in QueriedPositions :
    (\A x \in QueriedPositions : p <= x) =>
      /\ RanAsTimeSeries => options.targets[p].format = "time_series"
      /\ RanAsLogs => options.targets[p].format # "time_series"

\* C9: a result is returned or emitted only once every backend call of its batch
\* has answered, and it is built from the answers of all of them.
C9_JoinSemantics ==
  /\ q.state = "resolved" => \A r \in requests : r.resp = "ok"
  /\ \A n \in DOMAIN delivered :
       delivered[n].kind # "EMPTY" =>
         LET batch == BatchOf(requests, delivered[n].batch)
         IN  /\ \A r \in batch : r.resp = "ok"
             /\ delivered[n].sources = { r.i : r \in batch }

\* C10: every prepared query target has limit = this.maxLines and direction
\* BACKWARD.
C10_LimitAndDirection ==
  \A r \in requests : r.target.limit = maxLines /\ r.target.direction = "BACKWARD"

\* a call went out with a configured maxLines that is not the default limit
C10_Witness ==
  \E r \in requests :
    /\ r.target.limit = ConfiguredMaxLines
    /\ maxLines # DEFAULT_QUERY_PARAMS.limit
    /\ r.target.regexp # DEFAULT_QUERY_PARAMS.regexp

\* the number of entries of a list of streams
RECURSIVE EntryCount(_)
EntryCount(streams) ==
  IF streams = << >> THEN 0
  ELSE Len(Head(streams).entries) + EntryCount(Tail(streams))

\* C11: the log model mergeStreams() returns never has more than maxLines rows.
C11_RowsCapped ==
  returned.fn = "mergeStreams" => Len(returned.logs.rows) <= maxLines

\* mergeStreams() was handed more entries than maxLines and returned maxLines rows
C11_Witness ==
  /\ returned.fn = "mergeStreams"
  /\ EntryCount(returned.streams) > maxLines
  /\ Len(returned.streams) >= 2
  /\ Len(returned.logs.rows) = maxLines

\* C12: for a date that is a moment, getTime returns the same nanosecond value
\* with roundUp = false and with roundUp = true.
C12_RoundUpIgnoredForMoments ==
  (returned.fn = "getTime" /\ ~isString(returned.date)) => returned.down = returned.up

\* getTime was called both ways on a moment that does not lie on a full second
C12_Witness ==
  /\ returned.fn = "getTime"
  /\ ~isString(returned.date)
  /\ returned.date.ms % 1000 # 0
  /\ returned.up = returned.date.ms * NsPerMs

\* the elements delivered for the live tick with number batch
ElementsOfTick(batch) ==
  { n \in DOMAIN delivered : delivered[n].batch = batch }

\* C13: in live mode a tick whose calls have all answered has delivered exactly
\* one element, holding the streams of all queried targets of the tick; no
\* per-target elements and no element for a suppressed target are delivered.
C13_OneElementPerTick ==
  ticks >= 1 =>
    \A b \in 1..ticks :
      /\ \A n \in ElementsOfTick(b) :
           /\ delivered[n].kind = "streams"
           /\ delivered[n].sources = { r.i : r \in BatchOf(requests, b) }
      /\ Cardinality(ElementsOfTick(b)) <= 1
      /\ (/\ BatchOf(requests, b) # {}
          /\ \A r \in BatchOf(requests, b) : r.resp = "ok")
           => Cardinality(ElementsOfTick(b)) = 1

\* the positions in delivered of the result elements of the tick numbered batch
ResultsOfTick(batch) ==
  { n \in ElementsOfTick(batch) : delivered[n].kind # "EMPTY" }

\* C14: the poller does not serialize ticks: while it is polling the next tick
\* can fire whatever calls are still in flight, and the result of a tick is
\* delivered once its own calls have answered, whatever other ticks are waiting for.
C14_TicksNotSerialized ==
  /\ (sub = "Polling" /\ ticks < MaxTicks) => ENABLED Tick
  /\ \A b \in 1..ticks :
       (/\ BatchOf(requests, b) # {}
        /\ \A r \in BatchOf(requests, b) : r.resp = "ok")
         => ResultsOfTick(b) # {}

\* the result of the second tick was delivered while the calls of the first tick
\* were in flight, and the result of the first tick was delivered after it
C14_Witness ==
  /\ ticks >= 2
  /\ \E n1 \in ResultsOfTick(1), n2 \in ResultsOfTick(2) : n2 < n1

\* the calls a step issues
Issued ==
  { r \in requests' : r.resp = "pending" /\ r \notin requests }

\* C15: every call issued at a live tick has a window of one second that ends at
\* the clock of that tick, which is later than the window of every earlier call.
C15_LiveWindowAnchoredAtTick ==
  [][\A r \in Issued :
       r.batch >= 1 =>
         /\ r.target.end = clock' * NsPerMs
         /\ r.target.end - r.target.start = 1000000000
         /\ \A e \in requests : e.target.end < r.target.end]_vars

\* two ticks have issued calls, with windows of one second one timer period
\* apart, for a requested range that is not one second long
C15_Witness ==
  /\ getTime(options.range.to, TRUE, clock) - getTime(options.range.from, FALSE, clock)
       # LiveWindowMs * NsPerMs
  /\ \E r1, r2 \in requests :
       /\ r1.batch = 1 /\ r2.batch = 2
       /\ r1.target.end - r1.target.start = LiveWindowMs * NsPerMs
       /\ r2.target.end - r2.target.start = LiveWindowMs * NsPerMs
       /\ r2.target.end - r1.target.end = TimerPeriodMs * NsPerMs

\* C16: every query target prepareQueryTarget has built has start < end, for
\* every requested range and in live and in historical mode.
C16_StartBeforeEnd ==
  \A r \in requests : r.target.start < r.target.end

\* the number of rows a list of series lines counts
RECURSIVE PointCount(_)
PointCount(points) ==
  IF points = << >> THEN 0 ELSE Head(points)[1] + PointCount(Tail(points))

RECURSIVE SeriesCount(_)
SeriesCount(series) ==
  IF series = << >> THEN 0
  ELSE PointCount(Head(series).datapoints) + SeriesCount(Tail(series))

\* the streams the backend calls of query() have answered with
AnsweredStreams ==
  Concat([i \in 1..Cardinality(requests) |->
            ResultStreams(CHOOSE r \in requests : r.i = i)])

\* C17: in time-series mode the series counts every entry of the streams it is
\* derived from, also when they hold more than maxLines entries.
C17_SeriesCountsEveryEntry ==
  /\ returned.fn = "mergeStreams" =>
       SeriesCount(returned.logs.series) = EntryCount(returned.streams)
  /\ (q.state = "resolved" /\ q.kind = "series") =>
       SeriesCount(q.data) = EntryCount(AnsweredStreams)

\* stream() was subscribed in live mode
LiveSubscription ==
  q.state = "idle" /\ sub # "Idle" /\ LiveStreamOf(options)

\* C18: a live subscription issues backend calls only while it is polling, in a
\* step of the 1000 ms timer: none when it is subscribed, none once it is
\* cancelled, none at all if it is cancelled before the first tick, and a
\* cancelled subscription stays cancelled.
C18_RequestsOnlyWhilePolling ==
  [][/\ (sub = "Idle" /\ sub' = "Polling") => requests' = {}
     /\ (LiveSubscription /\ Issued # {}) =>
          /\ sub = "Polling" /\ sub' = "Polling"
          /\ ticks' = ticks + 1
          /\ clock' = clock + TimerPeriodMs
     /\ (LiveSubscription /\ sub = "Cancelled") =>
          /\ sub' = "Cancelled"
          /\ requests' = requests
          /\ ticks = 0 => requests = {}]_vars

\* a live subscription over a queried target was cancelled before its first tick
C18_Witness ==
  /\ LiveSubscription
  /\ sub = "Cancelled"
  /\ ticks = 0
  /\ QueriedPositions # {}
  /\ requests = {}

\* the labels of the streams of q.data that came from the call at position i
LabelsFrom(i) ==
  LET mine == SelectSeq(q.data, LAMBDA st : st.origin = i)
  IN  [n \in 1..Len(mine) |-> mine[n].labels]

\* the labels of the streams the backend answered the call at position i with
LabelsAnswered(i) ==
  LET found == BackendStreams((CHOOSE r \in requests : r.i = i).target)
  IN  [n \in 1..Len(found) |-> found[n].labels]

\* C19: whatever order the backend calls of query() answered in, the returned
\* stream list has the streams of the targets in target order, and the streams
\* of one target in the order of its response.
C19_ResultInTargetOrder ==
  (q.state = "resolved" /\ q.kind = "streams") =>
    /\ \A a, b \in DOMAIN q.data : a < b => q.data[a].origin <= q.data[b].origin
    /\ \A r \in requests : LabelsFrom(r.i) = LabelsAnswered(r.i)
    /\ \A n \in DOMAIN q.data : \E r \in requests : r.i = q.data[n].origin

\* query() returned one stream of its first target and two of its second, whose
\* call had answered first
C19_Witness ==
  /\ q.state = "resolved" /\ q.kind = "streams"
  /\ \E r1, r2 \in requests :
       /\ r1.i = 1 /\ r2.i = 2 /\ r2.order < r1.order
       /\ Len(LabelsFrom(1)) = 1 /\ Len(LabelsFrom(2)) = 2
       /\ LabelsFrom(2)[1] # LabelsFrom(2)[2]

====
